---- MODULE Spec2Model ----
(***************************************************************************)
(* Model of hybrid_multitenant.py (src/main.py): a FastAPI application     *)
(* that routes POST /users and GET /users to a per-tenant SQLite store     *)
(* selected by the X-Tenant-ID header.  Synchronous handlers run on the    *)
(* worker threads of the server's thread pool, one request per thread at   *)
(* a time; every statement that touches shared state (the stores, the      *)
(* thread-local context) is one step of the thread.                        *)
(***************************************************************************)
EXTENDS Naturals, Sequences, FiniteSets, TLC

\* ------------------------------------------------------------------ bounds
MaxRequests == 3       \* requests received in one run

\* The worker threads of the pool that serve requests.
Threads == {1, 2}

\* ---------------------------------------------------------- program values
\* request.headers.get("X-Tenant-ID") is None when the header is absent.
None == "None"

\* TENANT_META, main.py:10-19
TENANT_META ==
    [tid \in {"alpha", "beta"} |->
        IF tid = "alpha"
        THEN [db_url |-> "sqlite:///./alpha.db", table_prefix |-> "alpha_"]
        ELSE [db_url |-> "sqlite:///./beta.db", table_prefix |-> "beta_"]]

NoMeta == [db_url |-> "", table_prefix |-> ""]

\* Header values a client sends: absent, empty, the two registered tenants
\* and one unregistered tenant.
Headers == {None, "", "alpha", "beta", "gamma"}

\* UserCreate bodies, main.py:55-57.  Both tenants may send the same one.
NoUser == [name |-> "", email |-> ""]
Users == {[name |-> "ann", email |-> "ann@x.org"],
          [name |-> "bob", email |-> "bob@x.org"]}

Routes == {"POST", "GET"}

\* The store files the registry names.
Urls == {TENANT_META[tid].db_url : tid \in DOMAIN TENANT_META}

\* Columns of the table ensure_tenant_table defines, main.py:45-47.
UsersCols == {"id", "name", "email"}
\* Columns of a table left in a store file by something else.
LegacyCols == {"id", "title"}

\* table_name = f"{prefix}users", main.py:41
table_name(prefix) == prefix \o "users"

NoResponse == [status |-> 0, detail |-> "", message |-> "", body |-> <<>>]

\* raise HTTPException(status_code, detail): FastAPI answers with that status.
HTTPException(status_code, detail) ==
    [status |-> status_code, detail |-> detail, message |-> "", body |-> <<>>]

\* An exception no handler catches: FastAPI answers 500.
ServerError(detail) ==
    [status |-> 500, detail |-> detail, message |-> "", body |-> <<>>]

\* Variant: only an absent header is taken for a missing one.
Falsy_none_only(x) == x = None

\* Variant: only the empty string is taken for a missing header.
Falsy_empty_only(x) == x = ""

\* if not tenant_id (main.py:62): None and "" are both falsy.
Falsy(x) == x = None \/ x = ""

VARIABLES
    tenant_meta,     \* the module-level dict TENANT_META
    tenant_context,  \* threading.local(): the prefix attribute of each thread
    db,              \* store file -> (table name -> [cols, rows])
    reachable,       \* whether a connection to a store file can be opened
    lock,            \* store file -> thread holding its write lock, 0 if free
    th,              \* worker thread -> frame of the request it serves
    created,         \* tenant_id -> engines create_engine has built for it
    ddl,             \* store file -> CREATE TABLE statements that succeeded
    acked,           \* (tenant, name, email) of the create_user calls answered
    connfail,        \* tenant_ids a request of which failed to open a connection
    nreq             \* requests received so far

vars == <<tenant_meta, tenant_context, db, reachable, lock, th, created, ddl,
          acked, connfail, nreq>>

\* The frame of a thread that serves no request.
IdleFrame ==
    [pc |-> "idle", route |-> "GET", header |-> None, user |-> NoUser,
     tenant_id |-> "", meta |-> NoMeta, engine |-> "", metadata |-> {},
     prefix |-> "", users_table |-> "", txn |-> <<>>, result |-> <<>>,
     response |-> NoResponse, work |-> {}, seen |-> {}, after_fail |-> FALSE,
     base |-> 0]

\* At start a store file holds no table, or a table of the tenant's table
\* name with other columns, left by something else.  (A store that holds the
\* table as this program creates it is reached by creating it.)
InitialStores ==
    {[cols |-> LegacyCols, rows |-> <<>>]}

OwnTable(u) ==
    table_name(TENANT_META[CHOOSE tid \in DOMAIN TENANT_META :
                               TENANT_META[tid].db_url = u].table_prefix)

Init ==
    /\ tenant_meta = TENANT_META
    /\ tenant_context = [t \in Threads |-> ""]
    /\ \E pre \in [Urls -> InitialStores \cup {[cols |-> {}, rows |-> <<>>]}] :
          db = [u \in Urls |->
                  IF pre[u].cols = {} THEN <<>>
                  ELSE (OwnTable(u) :> pre[u])]
    /\ reachable = TRUE
    /\ lock = [u \in Urls |-> 0]
    /\ th = [t \in Threads |-> IdleFrame]
    /\ created = [tid \in DOMAIN TENANT_META |-> 0]
    /\ ddl = [u \in Urls |-> 0]
    /\ acked = {}
    /\ connfail = {}
    /\ nreq = 0

\* ------------------------------------------------------------ the handlers
Step(t, frame) == th' = [th EXCEPT ![t] = frame]

\* A handler returns or raises: the response goes out and the handler's
\* locals (engine, session, metadata, table) go out of scope.
Finish(t, resp) ==
    [th[t] EXCEPT !.pc = "done", !.response = resp, !.meta = NoMeta,
                  !.engine = "", !.metadata = {}, !.prefix = "",
                  !.users_table = "", !.txn = <<>>, !.user = NoUser]

\* Variant: the lookup ignores its key.
get_tenant_meta_first(tenant_id) ==
    IF tenant_id \in DOMAIN tenant_meta THEN tenant_meta["alpha"] ELSE NoMeta

\* Variant: the lookup falls back to a default descriptor.
get_tenant_meta_default(tenant_id) ==
    IF tenant_id \in DOMAIN tenant_meta THEN tenant_meta[tenant_id]
    ELSE tenant_meta["alpha"]

\* def get_tenant_meta(tenant_id), main.py:24-28: the descriptor, or NoMeta
\* where the code raises HTTPException(404).
get_tenant_meta(tenant_id) ==
    IF tenant_id \in DOMAIN tenant_meta THEN tenant_meta[tenant_id] ELSE NoMeta

\* The number of rows committed so far in the table of a tenant.
CommittedNow(tid) ==
    IF tid \notin DOMAIN TENANT_META THEN 0
    ELSE LET u == TENANT_META[tid].db_url
             n == table_name(TENANT_META[tid].table_prefix)
         IN  IF n \in DOMAIN db[u] THEN Len(db[u][n].rows) ELSE 0

\* A worker thread picks up a request of the transport layer: its route and
\* its X-Tenant-ID header.  (The body is drawn where the handler reads it.)
Receive(t) ==
    /\ th[t].pc \in {"idle", "done"}
    /\ nreq < MaxRequests
    /\ \E route \in Routes, header \in Headers :
          Step(t, [IdleFrame EXCEPT
                     !.pc = "get_tenant_request",
                     !.route = route,
                     !.header = header,
                     !.seen = IF route = "GET"
                              THEN {a \in acked : a.tenant = header} ELSE {},
                     !.after_fail =
                         /\ header \in DOMAIN TENANT_META
                         /\ header \in connfail,
                     !.base = IF route = "GET" THEN CommittedNow(header)
                              ELSE 0])
    /\ nreq' = nreq + 1
    /\ UNCHANGED <<tenant_meta, tenant_context, db, reachable, lock, created,
                   ddl, acked, connfail>>

\* def get_tenant_request(request), main.py:60-64 (the route's dependency).
get_tenant_request(t) ==
    /\ th[t].pc = "get_tenant_request"
    /\ LET tenant_id == th[t].header IN
          IF Falsy(tenant_id)
          THEN Step(t, Finish(t, HTTPException(400, "Missing X-Tenant-ID header")))
          ELSE Step(t, [th[t] EXCEPT !.pc = "get_db_session",
                                     !.tenant_id = tenant_id])
    /\ UNCHANGED <<tenant_meta, tenant_context, db, reachable, lock, created,
                   ddl, acked, connfail, nreq>>

\* Variant: the context is one module-level object shared by all threads.
slot_shared(t) == 1

\* tenant_context = threading.local(), main.py:22: every thread reads and
\* writes attributes of its own.
slot(t) == t

\* def get_db_session(tenant_id), main.py:31-37, called at main.py:69 and 81.
\* create_engine builds a new engine on every call and opens no connection.
get_db_session(t) ==
    /\ th[t].pc = "get_db_session"
    /\ LET tenant_id == th[t].tenant_id
           meta == get_tenant_meta(tenant_id)
       IN  IF meta = NoMeta
           THEN /\ Step(t, Finish(t, HTTPException(404, "Tenant not found")))
                /\ UNCHANGED <<tenant_context, created>>
           ELSE /\ created' = [created EXCEPT ![tenant_id] = @ + 1]
                /\ tenant_context' =
                       [tenant_context EXCEPT ![slot(t)] = meta.table_prefix]
                /\ Step(t, [th[t] EXCEPT !.pc = "read_prefix",
                                         !.meta = meta,
                                         !.engine = meta.db_url,
                                         !.metadata = {},
                                         !.work = @ \cup {"engine"}])
    /\ UNCHANGED <<tenant_meta, db, reachable, lock, ddl, acked, connfail, nreq>>

\* prefix = tenant_context.prefix, main.py:70 and 82.
read_prefix(t) ==
    /\ th[t].pc = "read_prefix"
    /\ Step(t, [th[t] EXCEPT !.pc = "ensure_tenant_table",
                             !.prefix = tenant_context[slot(t)]])
    /\ UNCHANGED <<tenant_meta, tenant_context, db, reachable, lock, created,
                   ddl, acked, connfail, nreq>>

\* Variant: a handle that failed once is kept and handed out again.
connect_poisoned(tenant_id) == reachable /\ tenant_id \notin connfail

\* engine.connect() (main.py:73, 85, and inside create_all, main.py:49) on
\* the request's own engine: a new connection to the store file, which opens
\* when the file is reachable.
connect(tenant_id) == reachable

\* The pc after ensure_tenant_table: the with-block of the route.
AfterEnsure(t) == IF th[t].route = "POST" THEN "insert" ELSE "select"

\* Variant: create_all(checkfirst=False).
has_table_unchecked(u, name) == FALSE

\* metadata.create_all(engine) checks first: has_table(table_name).
has_table(u, name) == name \in DOMAIN db[u]

\* def ensure_tenant_table(engine, metadata, prefix), main.py:40-50, up to
\* the existence check of create_all: the Table is defined in the request's
\* MetaData, a connection is opened and the table is looked up by name.
ensure_tenant_table(t) ==
    /\ th[t].pc = "ensure_tenant_table"
    /\ LET name == table_name(th[t].prefix)
           u == th[t].engine
       IN  IF name \in th[t].metadata
           THEN /\ Step(t, Finish(t, ServerError("InvalidRequestError: Table is already defined for this MetaData instance")))
                /\ UNCHANGED connfail
           ELSE IF ~connect(th[t].tenant_id)
           THEN /\ Step(t, Finish(t, ServerError("OperationalError: unable to open database file")))
                /\ connfail' = connfail \cup {th[t].tenant_id}
           ELSE /\ Step(t, [th[t] EXCEPT
                              !.pc = IF has_table(u, name) THEN AfterEnsure(t)
                                     ELSE "create_table",
                              !.metadata = @ \cup {name},
                              !.users_table = name,
                              !.work = @ \cup {"has_table"}])
                /\ UNCHANGED connfail
    /\ UNCHANGED <<tenant_meta, tenant_context, db, reachable, lock, created,
                   ddl, acked, nreq>>

\* create_all found no table and issues CREATE TABLE (one DDL statement).
\* The statement fails if the table has appeared since the check.
create_table(t) ==
    /\ th[t].pc = "create_table"
    /\ LET name == th[t].users_table
           u == th[t].engine
       IN  IF has_table(u, name)
           THEN /\ Step(t, Finish(t, ServerError("OperationalError: table already exists")))
                /\ UNCHANGED <<db, ddl>>
           ELSE /\ db' = [db EXCEPT ![u] =
                            @ @@ (name :> [cols |-> UsersCols, rows |-> <<>>])]
                /\ ddl' = [ddl EXCEPT ![u] = @ + 1]
                /\ Step(t, [th[t] EXCEPT !.pc = AfterEnsure(t),
                                         !.work = @ \cup {"create_table"}])
    /\ UNCHANGED <<tenant_meta, tenant_context, reachable, lock, created,
                   acked, connfail, nreq>>

\* The id SQLite assigns to a row inserted without one into a table whose
\* id column is INTEGER PRIMARY KEY (main.py:45): one more than the largest.
RECURSIVE MaxId(_)
MaxId(rows) ==
    IF rows = <<>> THEN 0
    ELSE LET m == MaxId(Tail(rows)) IN
         IF Head(rows).id > m THEN Head(rows).id ELSE m

\* Variant: writers do not exclude one another.
lock_free_always(u) == TRUE

\* SQLite lets one connection at a time write to a store file: the INSERT
\* goes ahead when no other connection holds the write lock.
lock_free(u) == lock[u] = 0

\* with engine.connect() as conn: conn.execute(users_table.insert()...),
\* main.py:73-75.  The INSERT opens a transaction that holds the write lock
\* of the store file; the row is not visible to other connections yet.
insert(t) ==
    /\ th[t].pc = "insert"
    /\ LET name == th[t].users_table
           u == th[t].engine
       IN  IF ~connect(th[t].tenant_id)
           THEN /\ Step(t, Finish(t, ServerError("OperationalError: unable to open database file")))
                /\ connfail' = connfail \cup {th[t].tenant_id}
                /\ UNCHANGED lock
           ELSE IF ~(UsersCols \subseteq db[u][name].cols)
           THEN /\ Step(t, Finish(t, ServerError("OperationalError: table has no column named name")))
                /\ UNCHANGED <<lock, connfail>>
           ELSE /\ lock_free(u)
                /\ lock' = [lock EXCEPT ![u] = t]
                /\ \E user \in Users :
                      Step(t, [th[t] EXCEPT
                                 !.pc = "commit",
                                 !.user = user,
                                 !.txn = <<[id |-> MaxId(db[u][name].rows) + 1,
                                            name |-> user.name,
                                            email |-> user.email,
                                            src |-> th[t].tenant_id]>>,
                                 !.work = @ \cup {"insert"}])
                /\ UNCHANGED connfail
    /\ UNCHANGED <<tenant_meta, tenant_context, db, reachable, created, ddl,
                   acked, nreq>>

\* The INSERT waits for the write lock another connection holds and gives up
\* when the busy timeout passes.
insert_locked(t) ==
    /\ th[t].pc = "insert"
    /\ connect(th[t].tenant_id)
    /\ UsersCols \subseteq db[th[t].engine][th[t].users_table].cols
    /\ ~lock_free(th[t].engine)
    /\ Step(t, Finish(t, ServerError("OperationalError: database is locked")))
    /\ UNCHANGED <<tenant_meta, tenant_context, db, reachable, lock, created,
                   ddl, acked, connfail, nreq>>

\* Variant: the with-block ends without the commit taking effect.
commit_unwritten(t) ==
    /\ th[t].pc = "commit"
    /\ connect(th[t].tenant_id)
    /\ lock' = [lock EXCEPT ![th[t].engine] = IF @ = t THEN 0 ELSE @]
    /\ Step(t, [th[t] EXCEPT !.pc = "return", !.txn = <<>>,
                             !.work = @ \cup {"commit"}])
    /\ UNCHANGED <<tenant_meta, tenant_context, db, reachable, created, ddl,
                   acked, connfail, nreq>>

\* conn.commit(), main.py:76, and the end of the with-block.
commit(t) ==
    /\ th[t].pc = "commit"
    /\ connect(th[t].tenant_id)
    /\ LET name == th[t].users_table
           u == th[t].engine
       IN  /\ db' = [db EXCEPT ![u][name].rows = @ \o th[t].txn]
           /\ lock' = [lock EXCEPT ![u] = IF @ = t THEN 0 ELSE @]
    /\ Step(t, [th[t] EXCEPT !.pc = "return", !.txn = <<>>,
                             !.work = @ \cup {"commit"}])
    /\ UNCHANGED <<tenant_meta, tenant_context, reachable, created, ddl,
                   acked, connfail, nreq>>

\* conn.commit() raises when the store file cannot be written any more; the
\* with-block (main.py:73) closes the connection, which rolls the
\* transaction back, and the exception goes to the caller.
rollback(t) ==
    /\ th[t].pc = "commit"
    /\ ~connect(th[t].tenant_id)
    /\ lock' = [lock EXCEPT ![th[t].engine] = IF @ = t THEN 0 ELSE @]
    /\ Step(t, Finish(t, ServerError("OperationalError: disk I/O error")))
    /\ UNCHANGED <<tenant_meta, tenant_context, db, reachable, created, ddl,
                   acked, connfail, nreq>>

\* return {"message": f"User created in tenant '{tenant_id}'"}, main.py:77.
\* The route declares no status_code: FastAPI answers 200.
create_user_return(t) ==
    /\ th[t].pc = "return"
    /\ Step(t, Finish(t, [status |-> 200, detail |-> "",
                          message |-> "User created in tenant '"
                                          \o th[t].tenant_id \o "'",
                          body |-> <<>>]))
    /\ acked' = acked \cup {[tenant |-> th[t].tenant_id,
                             name |-> th[t].user.name,
                             email |-> th[t].user.email]}
    /\ UNCHANGED <<tenant_meta, tenant_context, db, reachable, lock, created,
                   ddl, connfail, nreq>>

\* Variant: the first row is skipped.
Serialize_skip_first(result) ==
    IF result = <<>> THEN <<>>
    ELSE [i \in 1..(Len(result) - 1) |->
            [id |-> result[i + 1].id, name |-> result[i + 1].name,
             email |-> result[i + 1].email]]

\* [{"id": row.id, "name": row.name, "email": row.email} for row in result]
RECURSIVE Serialize(_)
Serialize(result) ==
    IF result = <<>> THEN <<>>
    ELSE <<[id |-> Head(result).id, name |-> Head(result).name,
            email |-> Head(result).email]>> \o Serialize(Tail(result))

\* Variant: the SELECT also sees the rows of transactions still open.
RECURSIVE Pending(_, _, _)
Pending(S, u, name) ==
    IF S = {} THEN <<>>
    ELSE LET t == CHOOSE x \in S : TRUE IN
         (IF th[t].engine = u /\ th[t].users_table = name
          THEN th[t].txn ELSE <<>>) \o Pending(S \ {t}, u, name)
committed_rows_dirty(u, name) == db[u][name].rows \o Pending(Threads, u, name)

\* What a SELECT on another connection sees: the committed rows.
committed_rows(u, name) == db[u][name].rows

\* with engine.connect() as conn: conn.execute(users_table.select())
\* .fetchall() and the return, main.py:85-88.  The SELECT reads the
\* committed rows of the table.
select(t) ==
    /\ th[t].pc = "select"
    /\ LET name == th[t].users_table
           u == th[t].engine
       IN  IF ~connect(th[t].tenant_id)
           THEN /\ Step(t, Finish(t, ServerError("OperationalError: unable to open database file")))
                /\ connfail' = connfail \cup {th[t].tenant_id}
           ELSE IF ~(UsersCols \subseteq db[u][name].cols)
           THEN /\ Step(t, Finish(t, ServerError("OperationalError: no such column")))
                /\ UNCHANGED connfail
           ELSE LET result == committed_rows(u, name) IN
                /\ Step(t, [Finish(t, [status |-> 200, detail |-> "",
                                       message |-> "",
                                       body |-> Serialize(result)])
                              EXCEPT !.result = result,
                                     !.work = @ \cup {"select"}])
                /\ UNCHANGED connfail
    /\ UNCHANGED <<tenant_meta, tenant_context, db, reachable, lock, created,
                   ddl, acked, nreq>>

\* The environment: the store files become unreachable or reachable again.
backend ==
    /\ reachable' = ~reachable
    /\ UNCHANGED <<tenant_meta, tenant_context, db, lock, th, created, ddl,
                   acked, connfail, nreq>>

Next ==
    \/ \E t \in Threads : Receive(t)
    \/ \E t \in Threads : get_tenant_request(t)
    \/ \E t \in Threads : get_db_session(t)
    \/ \E t \in Threads : read_prefix(t)
    \/ \E t \in Threads : ensure_tenant_table(t)
    \/ \E t \in Threads : create_table(t)
    \/ \E t \in Threads : insert(t)
    \/ \E t \in Threads : insert_locked(t)
    \/ \E t \in Threads : commit(t)
    \/ \E t \in Threads : rollback(t)
    \/ \E t \in Threads : create_user_return(t)
    \/ \E t \in Threads : select(t)
    \/ backend

Spec == Init /\ [][Next]_vars

\* ------------------------------------------------------------------ claims
Registered(t) == th[t].header \in DOMAIN TENANT_META
Done(t) == th[t].pc = "done"
ConnectionError == "OperationalError: unable to open database file"
UrlOf(tid) == TENANT_META[tid].db_url
TableOf(tid) == table_name(TENANT_META[tid].table_prefix)

\* C1: at most one engine is ever created for each tenant_id; later requests
\* of the tenant reuse the first one.  (The code builds one per request.)
C1_OneEnginePerTenant ==
    \A tid \in DOMAIN created : created[tid] <= 1

\* C2: the rows list_users returns for a tenant were all inserted by
\* create_user requests of that same tenant, and the response body is those
\* rows, one record per row.
C2_TenantIsolation ==
    \A t \in Threads :
        (Done(t) /\ th[t].route = "GET" /\ th[t].response.status = 200) =>
            /\ Len(th[t].response.body) = Len(th[t].result)
            /\ \A i \in 1..Len(th[t].result) :
                  /\ th[t].result[i].src = th[t].header
                  /\ th[t].response.body[i] =
                        [id |-> th[t].result[i].id,
                         name |-> th[t].result[i].name,
                         email |-> th[t].result[i].email]

\* C2 witness: alpha's list returned alpha's row while beta's table holds a
\* row with the same name and email.
C2_Witness ==
    \E t \in Threads :
        /\ Done(t) /\ th[t].route = "GET" /\ th[t].header = "alpha"
        /\ th[t].response.status = 200
        /\ Len(th[t].response.body) = 1
        /\ TableOf("beta") \in DOMAIN db[UrlOf("beta")]
        /\ \E j \in 1..Len(db[UrlOf("beta")][TableOf("beta")].rows) :
              LET r == db[UrlOf("beta")][TableOf("beta")].rows[j] IN
              /\ r.name = th[t].response.body[1].name
              /\ r.email = th[t].response.body[1].email

\* C3: a request without the X-Tenant-ID header ends with 400 "Missing
\* X-Tenant-ID header" and has created no engine and touched no store.
C3_MissingHeader ==
    \A t \in Threads :
        (Done(t) /\ th[t].header = None) =>
            /\ th[t].response =
                  HTTPException(400, "Missing X-Tenant-ID header")
            /\ th[t].work = {}

\* C3 witness: one request of each route was rejected for its missing header.
C3_Witness ==
    \E t1, t2 \in Threads :
        /\ Done(t1) /\ th[t1].header = None /\ th[t1].route = "POST"
        /\ Done(t2) /\ th[t2].header = None /\ th[t2].route = "GET"
        /\ th[t1].response.status = 400 /\ th[t2].response.status = 400
        /\ \A tid \in DOMAIN created : created[tid] = 0

\* C4 as stated: every header value that is no key of the registry ends with
\* 404 "Tenant not found" and no backend work.
C4_UnknownTenant_AsStated ==
    \A t \in Threads :
        (Done(t) /\ th[t].header # None
                 /\ th[t].header \notin DOMAIN TENANT_META) =>
            /\ th[t].response = HTTPException(404, "Tenant not found")
            /\ th[t].work = {}

\* C4 (amended): every non-empty header value that is no key of the registry
\* ends with 404 "Tenant not found" and no backend work.
C4_UnknownTenant ==
    \A t \in Threads :
        (Done(t) /\ th[t].header \notin {None, ""}
                 /\ th[t].header \notin DOMAIN TENANT_META) =>
            /\ th[t].response = HTTPException(404, "Tenant not found")
            /\ th[t].work = {}

\* C4 witness: a request for the unregistered tenant gamma was answered 404.
C4_Witness ==
    \E t \in Threads :
        /\ Done(t) /\ th[t].header = "gamma"
        /\ th[t].response.status = 404

\* C5: ensure_tenant_table is idempotent when called again after it has
\* completed: a call that finds the tenant's table changes nothing in the
\* store and raises no error (it goes on to the route's statement whenever
\* the store can be opened), and a store in which the table was created holds
\* exactly one table, named prefix + "users", with columns id, name, email,
\* created once.
C5_Idempotent ==
    [][/\ \A t \in Threads :
            (/\ th[t].pc = "ensure_tenant_table"
             /\ table_name(th[t].prefix) \in DOMAIN db[th[t].engine]
             /\ th'[t] # th[t]) =>
                /\ db' = db
                /\ ddl' = ddl
                /\ reachable => th'[t].pc = AfterEnsure(t)
       /\ \A u \in Urls :
            /\ ddl'[u] <= 1
            /\ ddl'[u] = 1 =>
                  /\ DOMAIN db'[u] = {OwnTable(u)}
                  /\ db'[u][OwnTable(u)].cols = UsersCols]_vars

\* C5 witness: a request went through ensure_tenant_table without creating
\* anything, on a store whose table an earlier request had created.
C5_Witness ==
    \E t \in Threads :
        /\ th[t].pc \in {"insert", "select"}
        /\ ddl[th[t].engine] = 1
        /\ "has_table" \in th[t].work
        /\ "create_table" \notin th[t].work

\* C6: a list_users request received after a create_user of the same tenant
\* was answered returns, when it returns a sequence, a record with that name
\* and email and an id the store assigned; it fails only when the store
\* cannot be opened.
C6_InsertThenList ==
    \A t \in Threads :
        (Done(t) /\ th[t].route = "GET" /\ th[t].seen # {}) =>
            \/ /\ th[t].response.status = 200
               /\ \A a \in th[t].seen :
                     \E i \in 1..Len(th[t].response.body) :
                        /\ th[t].response.body[i].name = a.name
                        /\ th[t].response.body[i].email = a.email
                        /\ th[t].response.body[i].id \in Nat \ {0}
            \/ th[t].response = ServerError(ConnectionError)

\* C6 witness: a list received after two different users were created for
\* the tenant returned both.
C6_Witness ==
    \E t \in Threads :
        /\ Done(t) /\ th[t].route = "GET"
        /\ Cardinality(th[t].seen) = 2
        /\ th[t].response.status = 200
        /\ Len(th[t].response.body) = 2

\* C7: no request changes the registry, and the descriptor a request looked
\* up is the registry's descriptor of its tenant_id.
C7_RegistryReadOnly ==
    /\ tenant_meta = TENANT_META
    /\ \A t \in Threads :
          th[t].meta # NoMeta =>
             /\ th[t].tenant_id \in DOMAIN TENANT_META
             /\ th[t].meta = TENANT_META[th[t].tenant_id]

\* C7 witness: the third lookup for beta, after requests of every outcome
\* kind, still sees beta's descriptor.
C7_Witness ==
    \E t \in Threads :
        /\ th[t].meta = TENANT_META["beta"]
        /\ created["beta"] = 3

\* C8: list_users for a registered tenant whose table holds no row (or does
\* not exist yet) returns the empty sequence and never an error.  Left out
\* of the statement: the store cannot be opened, and a table of another
\* definition is in the way.
C8_EmptyList ==
    \A t \in Threads :
        (/\ Done(t) /\ th[t].route = "GET" /\ Registered(t)
         /\ th[t].response # ServerError(ConnectionError)
         /\ LET u == UrlOf(th[t].header)
                n == TableOf(th[t].header)
            IN  n \in DOMAIN db[u] =>
                    (db[u][n].rows = <<>> /\ db[u][n].cols = UsersCols)) =>
            /\ th[t].response.status = 200
            /\ th[t].response.body = <<>>

\* C9: a failed connection leaves nothing behind: a request that opens a
\* connection while the store is reachable never fails with the connection
\* error, whatever failed before, and no engine outlives its request.
C9_NoPoison ==
    [][\A t \in Threads :
          /\ (/\ th[t].pc \in {"ensure_tenant_table", "insert", "select"}
              /\ reachable
              /\ th'[t] # th[t]) =>
                 th'[t].response # ServerError(ConnectionError)
          /\ th'[t].pc \in {"idle", "done"} => th'[t].engine = ""]_vars

\* C9 witness: a request of a tenant was answered 200 after an earlier
\* request of that tenant had failed to connect.
C9_Witness ==
    \E t \in Threads :
        /\ Done(t) /\ th[t].after_fail
        /\ th[t].header \in connfail
        /\ th[t].response.status = 200

\* C10: when the tenant's table exists with a definition other than
\* (id, name, email), the request ends in SchemaConflict and does not go on
\* to insert or list.
C10_SchemaConflict ==
    \A t \in Threads :
        (/\ Done(t) /\ Registered(t)
         /\ "has_table" \in th[t].work
         /\ TableOf(th[t].header) \in DOMAIN db[UrlOf(th[t].header)]
         /\ db[UrlOf(th[t].header)][TableOf(th[t].header)].cols # UsersCols) =>
            /\ th[t].response = ServerError("SchemaConflict")
            /\ th[t].work \cap {"insert", "commit", "select"} = {}

\* C11: every successful create_user answers with status 201 and a body
\* {message: string}.  (FastAPI answers 200: the route sets no status_code.)
C11_Created201 ==
    \A t \in Threads :
        (/\ Done(t) /\ th[t].route = "POST"
         /\ th[t].response.status \in 200..299) =>
            /\ th[t].response.status = 201
            /\ th[t].response.message =
                  "User created in tenant '" \o th[t].tenant_id \o "'"

\* The engines of a tenant that some handler still refers to.  The only
\* reference to an engine is the local variable of the request that built
\* it (main.py:69, 81).
LiveEngines(tid) ==
    Cardinality({t \in Threads :
                    th[t].tenant_id = tid /\ th[t].engine # ""})

\* C12: a handle created for a tenant is never released while the process
\* serves requests: every engine created so far is still held.
C12_HandlesKept ==
    \A tid \in DOMAIN created : LiveEngines(tid) = created[tid]

\* C13: no request ends in a 'table already exists' error, also when
\* requests of one tenant run ensure_tenant_table concurrently, and no store
\* holds more than the one table.
C13_ConcurrentProvisioning ==
    /\ \A t \in Threads :
          Done(t) =>
             th[t].response #
                ServerError("OperationalError: table already exists")
    /\ \A u \in Urls : DOMAIN db[u] \subseteq {OwnTable(u)}

\* C14: in every reachable state no two rows of a table have the same id,
\* also when create_user requests of the tenant run concurrently; the id of
\* a row is the one the store assigned, the next after the largest present.
C14_UniqueIds ==
    /\ \A u \in Urls : \A n \in DOMAIN db[u] :
          \A i, j \in 1..Len(db[u][n].rows) :
             db[u][n].rows[i].id = db[u][n].rows[j].id => i = j
    /\ \A t \in Threads :
          th[t].txn # <<>> =>
             th[t].txn[1].id =
                MaxId(db[th[t].engine][th[t].users_table].rows) + 1

\* C14 witness: two create_user requests of one tenant are under way at once,
\* one holding the second id of the table and the other waiting to insert.
C14_Witness ==
    \E t1, t2 \in Threads :
        /\ th[t1].pc = "commit" /\ th[t2].pc = "insert"
        /\ th[t1].engine = th[t2].engine
        /\ th[t1].txn[1].id = 2

\* The row a create_user request has inserted is among the committed rows.
RowCommitted(t) ==
    \E i \in 1..Len(db[th[t].engine][th[t].users_table].rows) :
        LET r == db[th[t].engine][th[t].users_table].rows[i] IN
        r.name = th[t].user.name /\ r.email = th[t].user.email

\* C15: create_user answers success only from the statement after the commit,
\* with its row among the committed rows; a create_user that ends before its
\* commit has happened leaves the stores as they were, its row in none.
C15_CommitBeforeAck ==
    [][\A t \in Threads :
          /\ (/\ th[t].route = "POST" /\ th[t].pc # "done"
              /\ th'[t].pc = "done" /\ th'[t].response.status = 200) =>
                 /\ th[t].pc = "return"
                 /\ "commit" \in th[t].work
                 /\ RowCommitted(t)
          /\ (th[t].pc \in {"insert", "commit"} /\ th'[t].pc = "done") =>
                 /\ db' = db
                 /\ th'[t].response.status # 200
                 /\ \A i \in 1..Len(th[t].txn) :
                       \A j \in 1..Len(db'[th[t].engine][th[t].users_table].rows) :
                          db'[th[t].engine][th[t].users_table].rows[j].id
                             # th[t].txn[i].id]_vars

\* C15 witness: one create_user was rolled back at its commit and left its
\* table empty, and another create_user has been answered.
C15_Witness ==
    \E t \in Threads :
        /\ Done(t) /\ th[t].route = "POST" /\ Registered(t)
        /\ th[t].response = ServerError("OperationalError: disk I/O error")
        /\ db[UrlOf(th[t].header)][TableOf(th[t].header)].rows = <<>>
        /\ acked # {}

\* s is an initial segment of r.
IsPrefix(s, r) == Len(s) <= Len(r) /\ \A i \in 1..Len(s) : s[i] = r[i]

\* C16: a list_users that runs alongside create_user requests of its tenant
\* returns committed rows of the tenant's table only: all rows committed
\* before the list was received, with or without rows committed meanwhile,
\* and no row of a transaction still open or rolled back.
C16_ListCommittedOnly ==
    \A t \in Threads :
        (Done(t) /\ th[t].route = "GET" /\ th[t].response.status = 200) =>
            /\ IsPrefix(th[t].result,
                        db[UrlOf(th[t].header)][TableOf(th[t].header)].rows)
            /\ Len(th[t].result) >= th[t].base
            /\ th[t].response.body = Serialize(th[t].result)

\* C16 witness: a list received when one row was committed returned that row
\* and a second row, committed while the list was under way.
C16_Witness ==
    \E t \in Threads :
        /\ Done(t) /\ th[t].route = "GET" /\ th[t].response.status = 200
        /\ th[t].base = 1
        /\ Len(th[t].result) = 2

\* C17: the prefix a handler reads back from the thread-local context is the
\* table_prefix of its own tenant, and the table it provisions and accesses
\* is TENANT_META[tenant_id].table_prefix + "users" in the engine built from
\* TENANT_META[tenant_id].db_url, whatever other threads and earlier
\* requests on the same thread have left in the context.
C17_OwnPrefix ==
    \A t \in Threads :
        /\ th[t].prefix # "" =>
              th[t].prefix = TENANT_META[th[t].tenant_id].table_prefix
        /\ th[t].users_table # "" =>
              /\ th[t].users_table =
                    TENANT_META[th[t].tenant_id].table_prefix \o "users"
              /\ th[t].engine = TENANT_META[th[t].tenant_id].db_url

\* C17 witness: a thread whose context held alpha's prefix from its previous
\* request has read beta's prefix in a request of beta, while the other
\* thread starts its first request, one of alpha.
C17_Witness ==
    \E t, o \in Threads :
        /\ t # o
        /\ th[t].pc = "ensure_tenant_table" /\ th[t].tenant_id = "beta"
        /\ th[t].prefix = "beta_"
        /\ th[o].pc = "get_tenant_request" /\ th[o].header = "alpha"
        /\ tenant_context[o] = "" /\ created["alpha"] = 1

\* C18: no step of a list_users request changes the rows or columns of any
\* table, and the only table it may add is its own tenant's, empty; no step
\* of a create_user request changes the store of another tenant, and the only
\* change it makes to the rows of its own table is the one row its commit
\* appends.
C18_Frame ==
    [][\A t \in Threads :
          (th'[t] # th[t] /\ th[t].pc # "done" /\ th[t].pc # "idle") =>
             LET own == IF Registered(t) THEN UrlOf(th[t].header) ELSE "" IN
             /\ \A u \in Urls \ {own} : db'[u] = db[u]
             /\ \A u \in Urls : \A n \in DOMAIN db[u] :
                   /\ n \in DOMAIN db'[u]
                   /\ db'[u][n].cols = db[u][n].cols
                   /\ db'[u][n].rows # db[u][n].rows =>
                         /\ th[t].route = "POST"
                         /\ th[t].pc = "commit"
                         /\ n = TableOf(th[t].header)
                         /\ Len(db'[u][n].rows) = Len(db[u][n].rows) + 1
                         /\ IsPrefix(db[u][n].rows, db'[u][n].rows)
             /\ (th[t].pc = "return" /\ th'[t].response.status = 200) =>
                   "commit" \in th[t].work /\ RowCommitted(t)
             /\ \A u \in Urls : \A n \in DOMAIN db'[u] \ DOMAIN db[u] :
                   /\ n = TableOf(th[t].header)
                   /\ db'[u][n] = [cols |-> UsersCols, rows |-> <<>>]]_vars

\* C18 witness: a list_users of beta created beta's table and returned, and
\* a create_user of alpha has added its row, beta's table still being empty.
C18_Witness ==
    \E t \in Threads :
        /\ Done(t) /\ th[t].route = "GET" /\ th[t].header = "beta"
        /\ "create_table" \in th[t].work
        /\ db[UrlOf("beta")][TableOf("beta")].rows = <<>>
        /\ TableOf("alpha") \in DOMAIN db[UrlOf("alpha")]
        /\ Len(db[UrlOf("alpha")][TableOf("alpha")].rows) = 1

\* C19: a request whose X-Tenant-ID header is the empty string ends with 400
\* "Missing X-Tenant-ID header", not 404, with no tenant_id handed to the
\* handler, no descriptor looked up and no backend work.
C19_EmptyHeader ==
    \A t \in Threads :
        (Done(t) /\ th[t].header = "") =>
            /\ th[t].response =
                  HTTPException(400, "Missing X-Tenant-ID header")
            /\ th[t].work = {}
            /\ th[t].tenant_id = ""

\* C19 witness: a request of each route with an empty header was answered 400.
C19_Witness ==
    \E t1, t2 \in Threads :
        /\ Done(t1) /\ th[t1].header = "" /\ th[t1].route = "POST"
        /\ Done(t2) /\ th[t2].header = "" /\ th[t2].route = "GET"
        /\ th[t1].response.status = 400 /\ th[t2].response.status = 400

====
